---- MODULE Spec2Model ----
(***************************************************************************)
(* Energy Flow Card Plus: the state reader, the flow reconciliation, the   *)
(* home gauge arcs and the animation rates of render(), modelled from      *)
(* src/src/energy-flow-card-plus.ts.                                       *)
(*                                                                         *)
(* Sensor readings are integers (Wh).  Every quantity that the code        *)
(* obtains through a division is a JavaScript number that may be NaN or    *)
(* +/-Infinity; those are modelled as extended rationals (records with a   *)
(* kind k, a numerator n and a positive denominator d).                    *)
(***************************************************************************)
EXTENDS Integers, Sequences, FiniteSets, TLC

\* ---------------------------------------------------------------- bounds
\* largest sensor reading drawn for an entity (Wh or kWh, by its unit)
MaxReading == 2
\* magnitude of the most negative sensor reading drawn for an entity
MaxNegReading == 1
\* largest fossil energy total of the statistics snapshot (kWh)
MaxFossil == 1
\* largest flow value handed to circleRate in the rate mapper exploration
MaxRateValue == 4
\* largest configured flow rate / expected energy in the rate exploration
MaxRateCfg == 3
\* largest playback position (s) an animation reaches between two renders
MaxElapsed == 4
\* number of snapshots the energy collection delivers
MaxSnapshots == 2
\* latest a due timer callback runs after its due time (in poll intervals)
MaxLate == 1
\* end of the subscription clock (in poll intervals after hassSubscribe)
MaxTicks == 210

Readings == (-MaxNegReading)..MaxReading

\* ------------------------------------------------- JavaScript numbers
RECURSIVE Gcd(_, _)
Gcd(a, b) == IF b = 0 THEN a ELSE Gcd(b, a % b)

Abs(x) == IF x < 0 THEN -x ELSE x
Max(a, b) == IF a > b THEN a ELSE b
Min(a, b) == IF a < b THEN a ELSE b

\* a finite number n/d, kept in lowest terms with d > 0
Fin(n, d) ==
  LET s == IF d < 0 THEN -1 ELSE 1
      g == Gcd(Abs(n), Abs(d))
  IN  [k |-> "fin", n |-> (s * n) \div g, d |-> (s * d) \div g]

Num(i) == [k |-> "fin", n |-> i, d |-> 1]
NaN == [k |-> "nan", n |-> 0, d |-> 1]
Inf(s) == [k |-> "inf", n |-> s, d |-> 1]
Undef == [k |-> "undef", n |-> 0, d |-> 1]

IsFinite(x) == x.k = "fin"
Sign(x) == IF x.n > 0 THEN 1 ELSE IF x.n < 0 THEN -1 ELSE 0

\* x + y of IEEE-754 arithmetic (undefined operands coerce to NaN)
NAdd(x, y) ==
  IF x.k \in {"nan", "undef"} \/ y.k \in {"nan", "undef"} THEN NaN
  ELSE IF x.k = "inf" /\ y.k = "inf" THEN (IF x.n = y.n THEN x ELSE NaN)
  ELSE IF x.k = "inf" THEN x
  ELSE IF y.k = "inf" THEN y
  ELSE LET g == Gcd(x.d, y.d)
           l == (x.d \div g) * y.d
       IN  Fin(x.n * (l \div x.d) + y.n * (l \div y.d), l)

NNeg(x) == IF x.k \in {"fin", "inf"} THEN [x EXCEPT !.n = -x.n] ELSE NaN
NSub(x, y) == NAdd(x, NNeg(y))

\* x * y
NMul(x, y) ==
  IF x.k \in {"nan", "undef"} \/ y.k \in {"nan", "undef"} THEN NaN
  ELSE IF x.k = "inf" \/ y.k = "inf"
       THEN (IF Sign(x) * Sign(y) = 0 THEN NaN ELSE Inf(Sign(x) * Sign(y)))
  ELSE LET a == Fin(x.n, y.d)
           b == Fin(y.n, x.d)
       IN  Fin(a.n * b.n, a.d * b.d)

\* x / y: a zero divisor gives NaN (0/0) or a signed Infinity
NDiv(x, y) ==
  IF x.k \in {"nan", "undef"} \/ y.k \in {"nan", "undef"} THEN NaN
  ELSE IF x.k = "inf" /\ y.k = "inf" THEN NaN
  ELSE IF x.k = "inf" THEN Inf(IF y.n < 0 THEN -x.n ELSE x.n)
  ELSE IF y.k = "inf" THEN Num(0)
  ELSE IF y.n = 0 THEN (IF x.n = 0 THEN NaN ELSE Inf(Sign(x)))
  ELSE NMul(x, Fin(y.d, y.n))

\* x > y (false as soon as one side is NaN or undefined)
NGt(x, y) ==
  IF x.k \in {"nan", "undef"} \/ y.k \in {"nan", "undef"} THEN FALSE
  ELSE IF x.k = "inf" THEN x.n = 1 /\ ~(y.k = "inf" /\ y.n = 1)
  ELSE IF y.k = "inf" THEN y.n = -1
  ELSE LET g == Gcd(x.d, y.d)
       IN  x.n * (y.d \div g) > y.n * (x.d \div g)

NGe(x, y) ==
  IF x.k \in {"nan", "undef"} \/ y.k \in {"nan", "undef"} THEN FALSE
  ELSE x = y \/ NGt(x, y)

\* JavaScript truthiness of a number: 0, NaN and undefined are falsy
Truthy(x) == ~(x.k \in {"nan", "undef"}) /\ ~(x.k = "fin" /\ x.n = 0)
\* x || y
OrElse(x, y) == IF Truthy(x) THEN x ELSE y
\* x ?? y
Coalesce(x, y) == IF x.k = "undef" THEN y ELSE x

\* nullable integers of the reconciliation (let x: number | null)
Null == [null |-> TRUE, v |-> 0]
Some(i) == [null |-> FALSE, v |-> i]
\* x ?? 0 and x || 0 on a nullable integer
OrZero(x) == IF x.null THEN 0 ELSE x.v

\* ------------------------------------------------------ program constants
\* const circleCircumference = 238.76104
circleCircumference == Fin(23876104, 100000)
\* const energyDataTimeout = 10000 (ms)
energyDataTimeout == 10000
\* the delay of the poll's setTimeout (ms, line 68)
PollInterval == 100

\* --------------------------------------------------------------- state
VARIABLES
  config,       \* this._config: NoConfig until setConfig accepts one
  hass,         \* this.hass: [defined, states], states maps entity -> entry
  states,       \* this.states: statistics of the selected period
  data,         \* this._data: [received, co2SignalEntity, hasFossil, fossil, seq];
                \* seq numbers the snapshots in the order they are delivered
  previousDur,  \* this.previousDur: duration of each main flow, Undef if unset
  out,          \* what the last render() call computed and returned
  log,          \* entities named by unavailableOrMisconfiguredError in the last call
  rate,         \* last circleRate call: [called, value, total, result]
  read,         \* last getEntityStateWatthours call: [called, entity, value, logged]
  svgTime,      \* getCurrentTime() of each main flow's <svg> element (s)
  prior,        \* history of the observed renders: the result before the latest one,
                \* the previousDur that result was rendered from, and the
                \* previousDur the latest render started from
  sub,          \* the hassSubscribe call in progress: clock, poll chain, watchdog
  error,        \* this.error: "none" or the message it holds
  entitiesArr,  \* this.entitiesArr: the entity ids setConfig collected, in order
  fetches       \* the getStatistics calls awaited by subscription callbacks:
                \* [seq, entitiesArr] for the snapshot and the ids each was given

vars == <<config, hass, states, data, previousDur, out, log, rate, read, svgTime, prior, sub, error,
          entitiesArr, fetches>>

\* entity ids the configuration can name; "undefined" stands for a missing id
EntityIds == {"grid_c", "grid_p", "solar", "bat_c", "bat_p", "ind1", "ind2", "home"}

\* units of measurement as character sequences
UnitWh == <<"W", "h">>
UnitkWh == <<"k", "W", "h">>
UnitKWH == <<"K", "W", "H">>
UnitkWhPerDay == <<"k", "w", "h", "/", "d">>
UnitMWh == <<"M", "W", "h">>
NoUnit == <<>>
Units == {UnitWh, UnitkWh, UnitKWH, UnitkWhPerDay, UnitMWh, NoUnit}

\* String.prototype.toUpperCase on the characters the units use
ToUpperChar(c) ==
  CASE c = "k" -> "K"
    [] c = "w" -> "W"
    [] c = "h" -> "H"
    [] c = "d" -> "D"
    [] OTHER -> c
toUpperCase(u) == [i \in 1..Len(u) |-> ToUpperChar(u[i])]
\* String.prototype.startsWith
startsWith(u, p) == Len(u) >= Len(p) /\ \A i \in 1..Len(p) : u[i] = p[i]

\* entries of a state table: a numeric state, a textual state ("unavailable"),
\* or no entry at all for that entity id
Entry(v, u) == [present |-> TRUE, numeric |-> TRUE, value |-> v, unit |-> u]
Unavailable == [present |-> TRUE, numeric |-> FALSE, value |-> 0, unit |-> NoUnit]
Missing == [present |-> FALSE, numeric |-> FALSE, value |-> 0, unit |-> NoUnit]
EmptyTable == [e \in EntityIds |-> Missing]

\* table[entity], with the id "undefined" and unknown ids yielding no entry
Lookup(table, entity) == IF entity \in EntityIds THEN table[entity] ELSE Missing

\* isNumberValue(entry?.state) of ./utils
isNumberValue(entry) == entry.present /\ entry.numeric
\* coerceNumber(entry?.state) of ./utils: the number, or the fallback 0
coerceNumber(entry) == IF isNumberValue(entry) THEN entry.value ELSE 0

\* this.entityAvailable(entityId, instantaneousValue)
entityAvailable(cfg, hs, st, entityId, instantaneousValue) ==
  IF cfg.energy_date_selection = "true" /\ ~instantaneousValue
  THEN isNumberValue(Lookup(st, entityId))
  ELSE isNumberValue(Lookup(hs, entityId))

\* this.getEntityStateWatthours(entity): the value returned and whether the
\* "not available or misconfigured" diagnostic was logged
getEntityStateWatthours(cfg, hs, st, entity) ==
  IF entity = "undefined" \/ ~entityAvailable(cfg, hs, st, entity, FALSE)
  THEN [value |-> 0, logged |-> TRUE]
  ELSE LET stateObj == IF cfg.energy_date_selection # "false"
                       THEN Lookup(st, entity) ELSE Lookup(hs, entity)
           value == coerceNumber(stateObj)
       IN  IF stateObj.present /\ startsWith(toUpperCase(stateObj.unit), UnitKWH)
           THEN [value |-> value * 1000, logged |-> FALSE]
           ELSE [value |-> value, logged |-> FALSE]

\* the entity name the diagnostic carries (entityId ?? 'Unknown')
LogName(entity) == IF entity = "undefined" THEN "Unknown" ELSE entity

\* ------------------------------------------------------- configuration
\* The configuration fields render() reads.  grid: "none" (no entities.grid
\* key), "noentity" (key without entity), "combined" (one bidirectional
\* entity) or "split" (consumption and production entities); battery
\* likewise; solar: "none" or "entity".  home_override stands for
\* entities.home.override_state && entities.home.entity.
NoConfig == [defined |-> FALSE, grid |-> "none", solar |-> "none", battery |-> "none",
             individual1 |-> FALSE, individual2 |-> FALSE,
             home_override |-> FALSE, subtract_individual |-> FALSE,
             wh_kwh_threshold |-> 1000, kwh_decimals |-> 1, wh_decimals |-> 1,
             gridTol |-> Null, solarTol |-> Null, batteryTol |-> Null,
             inverted_entities |-> {}, energy_date_selection |-> "undefined",
             display_zero_lines |-> "undefined",
             use_new_flow_rate_model |-> FALSE,
             min_flow_rate |-> 1, max_flow_rate |-> 1,
             min_expected_energy |-> 0, max_expected_energy |-> 1]

\* a card that ignores inverted_entities
entityInvertedNever(cfg, entityType) == FALSE

\* this.entityInverted(entityType)
entityInverted(cfg, entityType) == entityType \in cfg.inverted_entities

\* entity ids of the roles
GridConsumptionEntity(cfg) == IF cfg.grid \in {"combined", "split"} THEN "grid_c" ELSE "undefined"
GridProductionEntity(cfg) ==
  IF cfg.grid = "combined" THEN "grid_c" ELSE IF cfg.grid = "split" THEN "grid_p" ELSE "undefined"
SolarEntity(cfg) == IF cfg.solar = "entity" THEN "solar" ELSE "undefined"
BatteryConsumptionEntity(cfg) == IF cfg.battery \in {"combined", "split"} THEN "bat_c" ELSE "undefined"
BatteryProductionEntity(cfg) ==
  IF cfg.battery = "combined" THEN "bat_c" ELSE IF cfg.battery = "split" THEN "bat_p" ELSE "undefined"
Individual1Entity(cfg) == IF cfg.individual1 THEN "ind1" ELSE "undefined"
Individual2Entity(cfg) == IF cfg.individual2 THEN "ind2" ELSE "undefined"
HomeEntity(cfg) == IF cfg.home_override THEN "home" ELSE "undefined"

\* what populateEntitiesArr pushes for one key of config.entities (lines
\* 125-130): the id of a string entity, consumption then production of an
\* object entity, nothing when the key has no entity
RoleEntities(role, kind) ==
  CASE role = "grid" /\ kind = "combined" -> <<"grid_c">>
    [] role = "grid" /\ kind = "split" -> <<"grid_c", "grid_p">>
    [] role = "solar" /\ kind = "entity" -> <<"solar">>
    [] role = "battery" /\ kind = "combined" -> <<"bat_c">>
    [] role = "battery" /\ kind = "split" -> <<"bat_c", "bat_p">>
    [] role = "individual1" /\ kind = "entity" -> <<"ind1">>
    [] role = "individual2" /\ kind = "entity" -> <<"ind2">>
    [] role = "home" /\ kind = "entity" -> <<"home">>
    [] OTHER -> <<>>

\* the ids pushed for the first n keys of config.entities
RECURSIVE PushedEntities(_, _)
PushedEntities(entities, n) ==
  IF n = 0 THEN <<>>
  ELSE PushedEntities(entities, n - 1) \o RoleEntities(entities[n][1], entities[n][2])

\* populateEntitiesArr (lines 121-132) over the keys of config.entities in
\* insertion order, each a pair <<role, kind>>; a key whose value is null
\* (kind "null") makes entities[entity].entity throw a TypeError, which
\* leaves the ids pushed so far
populateEntitiesArr(entities) ==
  LET nulls == {i \in 1..Len(entities) : entities[i][2] = "null"}
      stop == IF nulls = {} THEN Len(entities) + 1
              ELSE CHOOSE i \in nulls : \A j \in nulls : i <= j
  IN  [arr |-> PushedEntities(entities, stop - 1), threw |-> nulls # {}]

\* the keys of entities in a configuration record, in the order grid,
\* solar, battery, individual1, individual2, home
Entities(cfg) ==
  SelectSeq(<<<<"grid", cfg.grid>>, <<"solar", cfg.solar>>, <<"battery", cfg.battery>>,
              <<"individual1", IF cfg.individual1 THEN "entity" ELSE "none">>,
              <<"individual2", IF cfg.individual2 THEN "entity" ELSE "none">>,
              <<"home", IF cfg.home_override THEN "entity" ELSE "none">>>>,
            LAMBDA pair : pair[2] # "none")

\* setConfig's acceptance test: an object with at least one of
\* battery.entity, grid.entity, solar.entity
ConfigAccepted(cfg) ==
  cfg.battery \in {"combined", "split"} \/ cfg.grid \in {"combined", "split"} \/ cfg.solar = "entity"

\* this.hasField(field) for an individual role (display_zero not set, no
\* display_zero_tolerance): the reading is positive and available, and the
\* live state of the entity is a string
hasField(cfg, hs, st, entity) ==
  /\ getEntityStateWatthours(cfg, hs, st, entity).value > 0
  /\ entityAvailable(cfg, hs, st, entity, FALSE)
  /\ Lookup(hs, entity).present

\* a combined bidirectional reading r split by direction
PositivePart(r) == Max(r, 0)
NegativePart(r) == Abs(Min(r, 0))

\* ------------------------------------------------- animation rate mapper
\* a mapRange that returns the other end of the output range past maxIn
mapRangeSaturatingAtMinOut(value, minOut, maxOut, minIn, maxIn) ==
  IF NGt(value, maxIn) THEN minOut
  ELSE NAdd(NDiv(NMul(NSub(value, minIn), NSub(maxOut, minOut)), NSub(maxIn, minIn)), minOut)

\* mapRange(value, minOut, maxOut, minIn, maxIn)
mapRange(value, minOut, maxOut, minIn, maxIn) ==
  IF NGt(value, maxIn) THEN maxOut
  ELSE NAdd(NDiv(NMul(NSub(value, minIn), NSub(maxOut, minOut)), NSub(maxIn, minIn)), minOut)

\* a rate that sticks to the grid-home duration of the render before
circleRateFromPrevious(cfg, value, total) ==
  IF Truthy(previousDur["gridToHome"])
  THEN previousDur["gridToHome"]
  ELSE NSub(Num(cfg.max_flow_rate),
            NMul(NDiv(value, total), NSub(Num(cfg.max_flow_rate), Num(cfg.min_flow_rate))))

\* this.circleRate(value, total)
circleRate(cfg, value, total) ==
  LET maxRate == Num(cfg.max_flow_rate)
      minRate == Num(cfg.min_flow_rate)
  IN  IF cfg.use_new_flow_rate_model
      THEN mapRange(value, maxRate, minRate, Num(cfg.min_expected_energy), Num(cfg.max_expected_energy))
      ELSE NSub(maxRate, NMul(NDiv(value, total), NSub(maxRate, minRate)))

\* ------------------------------------------------ render: state reading
\* the sensor totals render() reads for the three main roles and the two
\* individual loads (lines 279-358, 417-432, 497-530)
renderTotals(cfg, hs, st) ==
  LET hasGrid == cfg.grid \in {"combined", "split"}
      hasBattery == cfg.battery \in {"combined", "split"}
      hasSolarProduction == cfg.solar # "none"
      hasReturnToGrid == hasGrid
      gridC == getEntityStateWatthours(cfg, hs, st, GridConsumptionEntity(cfg)).value
      gridP == getEntityStateWatthours(cfg, hs, st, GridProductionEntity(cfg)).value
      fromGrid0 ==
        IF ~hasGrid THEN 0
        ELSE IF cfg.grid = "combined"
             THEN (IF entityInverted(cfg, "grid") THEN NegativePart(gridC) ELSE PositivePart(gridC))
             ELSE gridC
      totalFromGrid ==
        IF ~cfg.gridTol.null THEN (IF fromGrid0 > cfg.gridTol.v THEN fromGrid0 ELSE 0) ELSE fromGrid0
      toGrid0 ==
        IF ~hasReturnToGrid THEN 0
        ELSE IF cfg.grid = "combined"
             THEN (IF entityInverted(cfg, "grid") THEN PositivePart(gridP) ELSE NegativePart(gridP))
             ELSE gridP
      totalToGrid ==
        IF ~cfg.gridTol.null THEN (IF toGrid0 > cfg.gridTol.v THEN toGrid0 ELSE 0) ELSE toGrid0
      hasIndividual1 == hasField(cfg, hs, st, Individual1Entity(cfg))
      hasIndividual2 == hasField(cfg, hs, st, Individual2Entity(cfg))
      individual1Usage ==
        IF hasIndividual1 THEN getEntityStateWatthours(cfg, hs, st, Individual1Entity(cfg)).value ELSE 0
      individual2Usage ==
        IF hasIndividual2 THEN getEntityStateWatthours(cfg, hs, st, Individual2Entity(cfg)).value ELSE 0
      sol == getEntityStateWatthours(cfg, hs, st, SolarEntity(cfg)).value
      solar0 ==
        IF ~hasSolarProduction THEN 0
        ELSE IF entityInverted(cfg, "solar") THEN NegativePart(sol) ELSE PositivePart(sol)
      totalSolarProduction ==
        IF hasSolarProduction /\ OrZero(cfg.solarTol) # 0 /\ cfg.solarTol.v >= solar0 THEN 0 ELSE solar0
      batP == getEntityStateWatthours(cfg, hs, st, BatteryProductionEntity(cfg)).value
      batC == getEntityStateWatthours(cfg, hs, st, BatteryConsumptionEntity(cfg)).value
      batIn0 ==
        IF ~hasBattery THEN 0
        ELSE IF cfg.battery = "combined"
             THEN (IF entityInverted(cfg, "battery") THEN PositivePart(batP) ELSE NegativePart(batP))
             ELSE batP
      batOut0 ==
        IF ~hasBattery THEN 0
        ELSE IF cfg.battery = "combined"
             THEN (IF entityInverted(cfg, "battery") THEN NegativePart(batC) ELSE PositivePart(batC))
             ELSE batC
      tolB == hasBattery /\ OrZero(cfg.batteryTol) # 0
      totalBatteryIn == IF tolB /\ cfg.batteryTol.v >= batIn0 THEN 0 ELSE batIn0
      totalBatteryOut == IF tolB /\ cfg.batteryTol.v >= batOut0 THEN 0 ELSE batOut0
  IN  [hasGrid |-> hasGrid, hasBattery |-> hasBattery,
       hasSolarProduction |-> hasSolarProduction, hasReturnToGrid |-> hasReturnToGrid,
       hasIndividual1 |-> hasIndividual1, hasIndividual2 |-> hasIndividual2,
       totalFromGrid |-> totalFromGrid, totalToGrid |-> totalToGrid,
       totalSolarProduction |-> totalSolarProduction,
       totalBatteryIn |-> totalBatteryIn, totalBatteryOut |-> totalBatteryOut,
       individual1Usage |-> individual1Usage, individual2Usage |-> individual2Usage]

\* ---------------------------------------------- render: reconciliation
\* batteryToGrid when the solar shortfall exceeds the grid import (line 546)
ExcessToGrid(batteryFromGrid, totalFromGrid) == Min(batteryFromGrid - totalFromGrid, 0)

\* a shortfall branch that attributes the shortfall to a battery whether or
\* not one is configured
ShortfallWithoutBatteryTest(t, solarConsumption0) ==
  IF ~solarConsumption0.null /\ solarConsumption0.v < 0
  THEN LET bfg == Abs(solarConsumption0.v)
       IN  IF bfg > t.totalFromGrid
           THEN [batteryFromGrid |-> Some(t.totalFromGrid),
                 batteryToGrid |-> Some(ExcessToGrid(bfg, t.totalFromGrid))]
           ELSE [batteryFromGrid |-> Some(bfg), batteryToGrid |-> Null]
  ELSE [batteryFromGrid |-> Null, batteryToGrid |-> Null]

\* the shortfall branch (lines 537-551): batteryFromGrid and batteryToGrid
Shortfall(t, solarConsumption0) ==
  IF ~solarConsumption0.null /\ solarConsumption0.v < 0 /\ t.hasBattery
  THEN LET bfg == Abs(solarConsumption0.v)
       IN  IF bfg > t.totalFromGrid
           THEN [batteryFromGrid |-> Some(t.totalFromGrid),
                 batteryToGrid |-> Some(ExcessToGrid(bfg, t.totalFromGrid))]
           ELSE [batteryFromGrid |-> Some(bfg), batteryToGrid |-> Null]
  ELSE [batteryFromGrid |-> Null, batteryToGrid |-> Null]

\* a solarToBattery that leaves the charge total out
SolarToBatteryWithoutCharge(totalBatteryIn, batteryFromGrid) == 0 - OrZero(batteryFromGrid)

\* solarToBattery (line 558)
SolarToBattery(totalBatteryIn, batteryFromGrid) == totalBatteryIn - OrZero(batteryFromGrid)

\* batteryConsumption that forgets the part of the discharge sent to the grid
BatteryConsumptionIgnoringExport(totalBatteryOut, batteryToGrid) == totalBatteryOut

\* batteryConsumption (line 568)
BatteryConsumption(totalBatteryOut, batteryToGrid) == totalBatteryOut - OrZero(batteryToGrid)

\* gridConsumption computed without deducting what the battery drew from the grid
GridConsumptionIgnoringBattery(totalFromGrid, batteryFromGrid) == Max(totalFromGrid, 0)

\* gridConsumption with Math.min written for Math.max
GridConsumptionMinForMax(totalFromGrid, batteryFromGrid) ==
  Min(totalFromGrid - OrZero(batteryFromGrid), 0)

\* gridConsumption (line 631)
GridConsumption(totalFromGrid, batteryFromGrid) == Max(totalFromGrid - OrZero(batteryFromGrid), 0)

\* the flows render() derives from the totals (lines 532-569, 631-635)
renderFlows(t) ==
  LET solarConsumption0 ==
        IF t.hasSolarProduction
        THEN Some(t.totalSolarProduction - t.totalToGrid - t.totalBatteryIn) ELSE Null
      sf == Shortfall(t, solarConsumption0)
      solarConsumption ==
        IF ~solarConsumption0.null /\ solarConsumption0.v < 0 THEN Some(0) ELSE solarConsumption0
      batteryFromGrid == sf.batteryFromGrid
      batteryToGrid ==
        IF t.hasSolarProduction /\ t.hasBattery
        THEN (IF OrZero(sf.batteryToGrid) = 0
              THEN Some(Max(0, t.totalToGrid - t.totalSolarProduction - t.totalBatteryIn
                               - OrZero(batteryFromGrid)))
              ELSE sf.batteryToGrid)
        ELSE IF ~t.hasSolarProduction /\ t.hasBattery THEN Some(t.totalToGrid)
        ELSE sf.batteryToGrid
      solarToBattery ==
        IF t.hasSolarProduction /\ t.hasBattery
        THEN Some(SolarToBattery(t.totalBatteryIn, batteryFromGrid)) ELSE Null
      solarToGrid ==
        IF t.hasSolarProduction /\ t.totalToGrid # 0
        THEN t.totalToGrid - OrZero(batteryToGrid) ELSE 0
      batteryConsumption ==
        IF t.hasBattery THEN BatteryConsumption(t.totalBatteryOut, batteryToGrid) ELSE 0
      gridConsumption == GridConsumption(t.totalFromGrid, batteryFromGrid)
      totalIndividualConsumption == t.individual1Usage + t.individual2Usage
      totalHomeConsumption == Max(gridConsumption + OrZero(solarConsumption) + batteryConsumption, 0)
      totalLines == gridConsumption + OrZero(solarConsumption) + solarToGrid
                    + OrZero(solarToBattery) + batteryConsumption
                    + OrZero(batteryFromGrid) + OrZero(batteryToGrid)
  IN  [solarConsumption |-> solarConsumption, batteryFromGrid |-> batteryFromGrid,
       batteryToGrid |-> batteryToGrid, solarToBattery |-> solarToBattery,
       solarToGrid |-> solarToGrid, batteryConsumption |-> batteryConsumption,
       gridConsumption |-> gridConsumption,
       totalIndividualConsumption |-> totalIndividualConsumption,
       totalHomeConsumption |-> totalHomeConsumption, totalLines |-> totalLines]

\* ------------------------------------------------- render: gauge arcs
\* this._data before any snapshot was delivered
NoData == [received |-> FALSE, co2SignalEntity |-> FALSE, hasFossil |-> FALSE, fossil |-> 0,
           seq |-> 0]

\* homeSolarCircumference (lines 640-643)
HomeSolarCircumference(hasSolarProduction, solarConsumption, totalHomeConsumption) ==
  IF hasSolarProduction
  THEN NMul(circleCircumference, NDiv(Num(OrZero(solarConsumption)), Num(totalHomeConsumption)))
  ELSE Num(0)

\* homeBatteryCircumference (lines 637-638)
HomeBatteryCircumference(batteryConsumption, totalHomeConsumption) ==
  IF batteryConsumption # 0
  THEN NMul(circleCircumference, NDiv(Num(batteryConsumption), Num(totalHomeConsumption)))
  ELSE Num(0)

\* highCarbonConsumption (line 872)
HighCarbonConsumption(highCarbonEnergy, gridConsumption, totalFromGrid) ==
  NMul(Num(highCarbonEnergy), NDiv(Num(gridConsumption), Num(totalFromGrid)))

\* a grid circle drawn as the remainder whether or not the overlay
\* computed homeGridCircumference
GridArcAlwaysRemainder(homeGridCircumference, homeSolarCircumference, homeBatteryCircumference) ==
  NSub(NSub(circleCircumference, homeSolarCircumference),
       OrElse(homeBatteryCircumference, Num(0)))

\* arc of the grid circle as drawn by the template (lines 1377-1378)
GridArc(homeGridCircumference, homeSolarCircumference, homeBatteryCircumference) ==
  Coalesce(homeGridCircumference,
           NSub(NSub(circleCircumference, homeSolarCircumference),
                OrElse(homeBatteryCircumference, Num(0))))

\* the keys of homeSources in the order Object.keys lists them (lines 725-742)
HomeSourceKeys == <<"battery", "solar", "grid", "gridNonFossil">>

\* the callback of the reduce at line 745
LargerSource(homeSources, a, b) == IF NGt(homeSources[a], homeSources[b]) THEN a ELSE b

\* Object.keys(homeSources).reduce(...) (line 745): a left fold without
\* an initial value
homeLargestSource(homeSources) ==
  LargerSource(homeSources,
               LargerSource(homeSources,
                            LargerSource(homeSources, HomeSourceKeys[1], HomeSourceKeys[2]),
                            HomeSourceKeys[3]),
               HomeSourceKeys[4])

\* homeSources as built at lines 725-742: homeGridCircumference and
\* homeNonFossilCircumference are declared at lines 663-666 and not yet
\* assigned there (their only assignments are lines 874-875)
HomeSources(homeBatteryCircumference, homeSolarCircumference) ==
  [battery |-> homeBatteryCircumference, solar |-> homeSolarCircumference,
   grid |-> Undef, gridNonFossil |-> Undef]

\* the arcs of the home gauge (lines 637-643, 863-877) and what the
\* template draws of them (lines 1337-1383)
renderArcs(t, f, dt) ==
  LET homeBatteryCircumference == HomeBatteryCircumference(f.batteryConsumption, f.totalHomeConsumption)
      homeSolarCircumference ==
        HomeSolarCircumference(t.hasSolarProduction, f.solarConsumption, f.totalHomeConsumption)
      overlay == dt.received /\ dt.co2SignalEntity /\ dt.hasFossil
      highCarbonEnergy == dt.fossil * 1000
      lowCarbonEnergy == IF overlay THEN Num(t.totalFromGrid - highCarbonEnergy) ELSE Undef
      highCarbonConsumption == HighCarbonConsumption(highCarbonEnergy, f.gridConsumption, t.totalFromGrid)
      homeGridCircumference ==
        IF overlay
        THEN NMul(circleCircumference, NDiv(highCarbonConsumption, Num(f.totalHomeConsumption)))
        ELSE Undef
      homeNonFossilCircumference ==
        IF overlay
        THEN NSub(NSub(NSub(circleCircumference, OrElse(homeSolarCircumference, Num(0))),
                       OrElse(homeBatteryCircumference, Num(0))),
                  homeGridCircumference)
        ELSE Undef
      lowCarbonPercentage ==
        IF overlay
        THEN NMul(NDiv(OrElse(lowCarbonEnergy, Num(0)), Num(t.totalFromGrid)), Num(100))
        ELSE Undef
  IN  [overlay |-> overlay,
       homeBatteryCircumference |-> homeBatteryCircumference,
       homeSolarCircumference |-> homeSolarCircumference,
       homeGridCircumference |-> homeGridCircumference,
       homeNonFossilCircumference |-> homeNonFossilCircumference,
       lowCarbonEnergy |-> lowCarbonEnergy,
       highCarbonConsumption |-> IF overlay THEN highCarbonConsumption ELSE Undef,
       lowCarbonPercentage |-> lowCarbonPercentage,
       homeLargestSource |->
         homeLargestSource(HomeSources(homeBatteryCircumference, homeSolarCircumference)),
       \* stroke-dasharray lengths of the four circles; a circle that is not
       \* drawn contributes no arc
       solarArc |-> homeSolarCircumference,
       batteryArc |-> IF Truthy(homeBatteryCircumference) THEN homeBatteryCircumference ELSE Num(0),
       lowCarbonArc |-> Coalesce(homeNonFossilCircumference, Num(0)),
       gridArc |-> GridArc(homeGridCircumference, homeSolarCircumference, homeBatteryCircumference)]

\* ------------------------------------------------- render: home value
\* 10 ** decimalPlaces
RECURSIVE Pow10(_)
Pow10(decimalPlaces) == IF decimalPlaces = 0 THEN 1 ELSE 10 * Pow10(decimalPlaces - 1)

\* round(value, decimalPlaces) of ./utils: the nearest multiple of
\* 10 ** -decimalPlaces, halves going up as Math.round does
round(value, decimalPlaces) ==
  LET p == Pow10(decimalPlaces)
  IN  Fin((2 * value.n * p + value.d) \div (2 * value.d), p)

\* this.displayValue(value) for a number without an explicit unit (lines
\* 216-231): the rounded number and the unit printed after it
displayValue(cfg, value) ==
  LET isKWh == value >= cfg.wh_kwh_threshold
  IN  IF isKWh
      THEN [value |-> round(Fin(value, 1000), cfg.kwh_decimals), unit |-> UnitkWh]
      ELSE [value |-> round(Num(value), cfg.wh_decimals), unit |-> UnitWh]

\* x || 0 on a number that is never NaN
OrElseZero(x) == IF x # 0 THEN x ELSE 0

\* the number homeUsageToDisplay prints (lines 854-861)
HomeUsage(cfg, hs, st, totalHomeConsumption, totalIndividualConsumption) ==
  IF cfg.home_override
  THEN (IF cfg.subtract_individual
        THEN getEntityStateWatthours(cfg, hs, st, HomeEntity(cfg)).value - totalIndividualConsumption
        ELSE getEntityStateWatthours(cfg, hs, st, HomeEntity(cfg)).value)
  ELSE IF cfg.subtract_individual
       THEN OrElseZero(totalHomeConsumption - totalIndividualConsumption)
       ELSE totalHomeConsumption

\* the home circle's value (lines 854-861)
renderHome(cfg, hs, st, f) ==
  LET homeUsage == HomeUsage(cfg, hs, st, f.totalHomeConsumption, f.totalIndividualConsumption)
  IN  [homeUsage |-> homeUsage, homeUsageToDisplay |-> displayValue(cfg, homeUsage)]

NoHome == [homeUsage |-> 0, homeUsageToDisplay |-> [value |-> Undef, unit |-> NoUnit]]

\* ------------------------------------------- render: animation durations
MainFlows == {"batteryGrid", "batteryToHome", "gridToHome", "solarToBattery", "solarToGrid", "solarToHome"}
AllFlows == MainFlows \cup {"individual1", "individual2", "nonFossil"}

\* the flow magnitude that times the battery-grid particle (line 693)
BatteryGridValue(batteryFromGrid, batteryToGrid) ==
  IF ~batteryFromGrid.null THEN batteryFromGrid.v ELSE OrZero(batteryToGrid)

\* newDur (lines 692-702); nonFossilFuelenergy is never assigned
renderRates(cfg, t, f) ==
  LET totalLines == Num(f.totalLines)
      totalInd == Num(f.totalIndividualConsumption)
  IN  [batteryGrid |-> circleRate(cfg, Num(BatteryGridValue(f.batteryFromGrid, f.batteryToGrid)), totalLines),
       batteryToHome |-> circleRate(cfg, Num(f.batteryConsumption), totalLines),
       gridToHome |-> circleRate(cfg, Num(f.gridConsumption), totalLines),
       solarToBattery |-> circleRate(cfg, Num(OrZero(f.solarToBattery)), totalLines),
       solarToGrid |-> circleRate(cfg, Num(f.solarToGrid), totalLines),
       solarToHome |-> circleRate(cfg, Num(OrZero(f.solarConsumption)), totalLines),
       individual1 |-> circleRate(cfg, Num(t.individual1Usage), totalInd),
       individual2 |-> circleRate(cfg, Num(t.individual2Usage), totalInd),
       nonFossil |-> circleRate(cfg, Num(0), totalLines)]

NoDur == [n \in AllFlows |-> Undef]

\* ------------------------------------------- render: lines and particles
\* a showLine that never consults display_zero_lines
showLineAlways(cfg, energy) == TRUE

\* showLine (lines 254-257)
showLine(cfg, energy) ==
  IF cfg.display_zero_lines # "false" THEN TRUE ELSE energy > 0

\* which of the six paths the template draws (lines 1593, 1625, 1657, 1690,
\* 1728, 1760)
renderLines(cfg, t, f) ==
  [solarToHome |-> t.hasSolarProduction /\ showLine(cfg, OrZero(f.solarConsumption)),
   solarToGrid |-> t.hasReturnToGrid /\ t.hasSolarProduction /\ showLine(cfg, f.solarToGrid),
   solarToBattery |-> t.hasBattery /\ t.hasSolarProduction /\ showLine(cfg, OrZero(f.solarToBattery)),
   gridToHome |-> t.hasGrid /\ showLine(cfg, f.gridConsumption),
   batteryToHome |-> t.hasBattery /\ showLine(cfg, f.batteryConsumption),
   batteryGrid |-> t.hasGrid /\ t.hasBattery
                   /\ showLine(cfg, Max(OrZero(f.batteryFromGrid), OrZero(f.batteryToGrid)))]

\* which circles the template puts on the drawn paths (lines 1607, 1639,
\* 1672, 1710, 1742, 1777, 1793): each is nested in its path's element and
\* tests the flow for truthiness
renderParticles(t, f, lines) ==
  [solarToHome |-> lines.solarToHome /\ OrZero(f.solarConsumption) # 0,
   solarToGrid |-> lines.solarToGrid /\ f.solarToGrid # 0 /\ t.hasSolarProduction,
   solarToBattery |-> lines.solarToBattery /\ OrZero(f.solarToBattery) # 0,
   gridToHome |-> lines.gridToHome /\ f.gridConsumption # 0,
   batteryToHome |-> lines.batteryToHome /\ f.batteryConsumption # 0,
   batteryFromGrid |-> lines.batteryGrid /\ OrZero(f.batteryFromGrid) # 0,
   batteryToGrid |-> lines.batteryGrid /\ OrZero(f.batteryToGrid) # 0]
NoPreviousDur == [n \in MainFlows |-> Undef]

\* ------------------------------------------------------------- render
NoTotals == [hasGrid |-> FALSE, hasBattery |-> FALSE, hasSolarProduction |-> FALSE,
             hasReturnToGrid |-> FALSE, hasIndividual1 |-> FALSE, hasIndividual2 |-> FALSE,
             totalFromGrid |-> 0, totalToGrid |-> 0, totalSolarProduction |-> 0,
             totalBatteryIn |-> 0, totalBatteryOut |-> 0,
             individual1Usage |-> 0, individual2Usage |-> 0]
NoFlows == [solarConsumption |-> Null, batteryFromGrid |-> Null, batteryToGrid |-> Null,
            solarToBattery |-> Null, solarToGrid |-> 0, batteryConsumption |-> 0,
            gridConsumption |-> 0, totalIndividualConsumption |-> 0,
            totalHomeConsumption |-> 0, totalLines |-> 0]
NoArcs == [overlay |-> FALSE, homeBatteryCircumference |-> Undef, homeSolarCircumference |-> Undef,
           homeGridCircumference |-> Undef, homeNonFossilCircumference |-> Undef,
           lowCarbonEnergy |-> Undef, highCarbonConsumption |-> Undef,
           lowCarbonPercentage |-> Undef, homeLargestSource |-> "gridNonFossil",
           solarArc |-> Undef, batteryArc |-> Undef, lowCarbonArc |-> Undef, gridArc |-> Undef]

\* out.kind: "none" (render never ran), "empty" (html``), "loading",
\* "threw" (a TypeError left render) or "card" (the diagram was produced)
NoOut == [kind |-> "none", t |-> NoTotals, f |-> NoFlows, a |-> NoArcs, home |-> NoHome,
          newDur |-> NoDur, lines |-> [n \in MainFlows |-> FALSE],
          particles |-> [n \in (MainFlows \ {"batteryGrid"}) \cup {"batteryFromGrid", "batteryToGrid"}
                           |-> FALSE]]

\* how render() leaves (lines 259-266, 360): entities.grid.entity is read
\* without optional chaining, so a configuration without a grid key throws
renderKind(cfg, h, dt) ==
  IF ~cfg.defined \/ ~h.defined THEN "empty"
  ELSE IF ~dt.received /\ cfg.energy_date_selection # "false" THEN "loading"
  ELSE IF cfg.grid = "none" THEN "threw"
  ELSE "card"

\* entities named by the diagnostic of getEntityStateWatthours while render
\* reads the roles; fields that are not configured are read as undefined
renderLog(cfg, hs, st) ==
  {"Unknown"} \cup
  {LogName(e) : e \in {x \in {GridConsumptionEntity(cfg), GridProductionEntity(cfg),
                              Individual1Entity(cfg), Individual2Entity(cfg)} :
                        getEntityStateWatthours(cfg, hs, st, x).logged}}
  \cup (IF cfg.grid = "none" THEN {}
        ELSE {LogName(e) : e \in {x \in {SolarEntity(cfg), BatteryConsumptionEntity(cfg),
                                         BatteryProductionEntity(cfg)} :
                                   /\ (x = SolarEntity(cfg) => cfg.solar # "none")
                                   /\ (x # SolarEntity(cfg) => cfg.battery # "none")
                                   /\ getEntityStateWatthours(cfg, hs, st, x).logged}})
  \cup (IF cfg.grid # "none" /\ cfg.home_override
            /\ getEntityStateWatthours(cfg, hs, st, HomeEntity(cfg)).logged
        THEN {LogName(HomeEntity(cfg))} ELSE {})

\* the `${flowName}Flow` members the class defines (lines 31-49, 153): the
\* element lookup of line 705 reads a member that is declared nowhere
FlowElementMembers == {}

\* this[`${flowName}Flow`] is an element (line 705)
flowSVGElement(flowName) == flowName \in FlowElementMembers

\* the playback position render leaves a flow's element at (lines 705-710)
RescaledTime(flowName, newDur) ==
  IF /\ flowSVGElement(flowName)
     /\ Truthy(previousDur[flowName])
     /\ previousDur[flowName] # newDur[flowName]
  THEN NMul(svgTime[flowName], NDiv(newDur[flowName], previousDur[flowName]))
  ELSE svgTime[flowName]

NoSvgTime == [n \in MainFlows |-> Num(0)]
NoPrior == [out |-> NoOut, previousDur |-> NoPreviousDur, entryDur |-> NoPreviousDur]
\* sub.ticks counts poll intervals since `start`; sub.poll is "none",
\* "due" (a poll callback is scheduled for sub.pollDue ms), "resolved" or
\* "rejected"; sub.watchdog is "none", "armed" or "fired"
NoSub == [called |-> FALSE, ticks |-> 0, poll |-> "none", pollDue |-> 0, watchdog |-> "none"]

\* a render that clears previousDur when it leaves early
updatePreviousDurOrClear(kind, newDur) ==
  IF kind = "card" THEN [n \in MainFlows |-> newDur[n]] ELSE NoPreviousDur

\* this.previousDur after render (lines 704-711): every main flow is
\* assigned its newDur once the rate computation is reached, and nothing
\* is assigned when render leaves before it (lines 259-266, 360)
updatePreviousDur(kind, newDur) ==
  IF kind = "card" THEN [n \in MainFlows |-> newDur[n]] ELSE previousDur

\* render(): the whole update, including the rescaling of the running
\* animations and the write of previousDur
RenderStep ==
  LET kind == renderKind(config, hass, data)
      t == renderTotals(config, hass.states, states)
      f == renderFlows(t)
      a == renderArcs(t, f, data)
      home == renderHome(config, hass.states, states, f)
      newDur == renderRates(config, t, f)
      lines == renderLines(config, t, f)
  IN  /\ out' = IF kind = "card"
                THEN [kind |-> "card", t |-> t, f |-> f, a |-> a, home |-> home, newDur |-> newDur,
                      lines |-> lines, particles |-> renderParticles(t, f, lines)]
                ELSE [NoOut EXCEPT !.kind = kind]
      /\ previousDur' = updatePreviousDur(kind, newDur)
      /\ log' = IF kind \in {"card", "threw"} THEN renderLog(config, hass.states, states) ELSE {}
      /\ svgTime' = IF kind = "card"
                    THEN [n \in MainFlows |-> RescaledTime(n, newDur)]
                    ELSE svgTime
      /\ UNCHANGED <<config, hass, states, data, rate, read, sub, error,
               entitiesArr, fetches>>

\* a render whose history is not kept
Render == RenderStep /\ UNCHANGED prior

\* a render that keeps the history of the render before it
RenderObserved ==
  RenderStep /\ prior' = [out |-> out, previousDur |-> prior.entryDur, entryDur |-> previousDur]

\* ---------------------------------------------------- hassSubscribe
\* Date.now() - start
Elapsed == sub.ticks * PollInterval

\* what one run of getEnergyDataCollectionPoll does to the poll chain
\* (lines 60-69)
PollOutcome(collectionAvailable, elapsed) ==
  IF collectionAvailable THEN "resolved"
  ELSE IF elapsed > energyDataTimeout THEN "rejected"
  ELSE "due"

\* a watchdog that sets its error whatever this.error already holds
WatchdogErrorUnguarded(err, st) == "watchdog"

\* the error the 20 s watchdog leaves (lines 72-75)
WatchdogError(err, st) == IF err = "none" /\ st = EmptyTable THEN "watchdog" ELSE err

\* hassSubscribe() (lines 51-97): nothing to do without the energy date
\* selection; otherwise the first poll runs inside the Promise constructor,
\* the watchdog is armed and a rejection is caught into this.error
HassSubscribe(collectionAvailable) ==
  /\ ~sub.called
  /\ config.defined
  /\ LET outcome == PollOutcome(collectionAvailable, 0)
     IN  sub' = IF config.energy_date_selection = "false"
                THEN [NoSub EXCEPT !.called = TRUE]
                ELSE [called |-> TRUE, ticks |-> 0, poll |-> outcome,
                      pollDue |-> IF outcome = "due" THEN PollInterval ELSE 0,
                      watchdog |-> "armed"]
  /\ UNCHANGED <<config, hass, states, data, previousDur, out, log, rate, read, svgTime, prior, error,
               entitiesArr, fetches>>

\* the scheduled getEnergyDataCollectionPoll runs (lines 60-69); a
\* rejection reaches the catch handler of lines 77-79 before any other task
Poll(collectionAvailable) ==
  /\ sub.poll = "due"
  /\ Elapsed >= sub.pollDue
  /\ LET outcome == PollOutcome(collectionAvailable, Elapsed)
     IN  /\ sub' = [sub EXCEPT !.poll = outcome,
                               !.pollDue = IF outcome = "due" THEN Elapsed + PollInterval ELSE 0]
         /\ error' = IF outcome = "rejected" THEN "timeout" ELSE error
  /\ UNCHANGED <<config, hass, states, data, previousDur, out, log, rate, read, svgTime, prior,
               entitiesArr, fetches>>

\* the setTimeout of lines 71-76 runs, energyDataTimeout * 2 after the call
Watchdog ==
  /\ sub.watchdog = "armed"
  /\ Elapsed >= energyDataTimeout * 2
  /\ sub' = [sub EXCEPT !.watchdog = "fired"]
  /\ error' = WatchdogError(error, states)
  /\ UNCHANGED <<config, hass, states, data, previousDur, out, log, rate, read, svgTime, prior,
               entitiesArr, fetches>>

\* one poll interval passes; a timer callback runs at most MaxLate
\* intervals after it is due
Advance ==
  /\ sub.called
  /\ sub.ticks < MaxTicks
  /\ sub.poll = "due" => Elapsed < sub.pollDue + MaxLate * PollInterval
  /\ sub.watchdog = "armed" => Elapsed < energyDataTimeout * 2 + MaxLate * PollInterval
  /\ sub' = [sub EXCEPT !.ticks = @ + 1]
  /\ UNCHANGED <<config, hass, states, data, previousDur, out, log, rate, read, svgTime, prior, error,
               entitiesArr, fetches>>

\* Home Assistant assigns a new hass object with fresh sensor states
\* in which entity e reports another reading
SetHass(e) ==
  /\ hass.defined
  /\ hass.states[e].present /\ hass.states[e].numeric
  /\ \E r \in Readings : hass' = [hass EXCEPT !.states[e].value = r]
  /\ hass' # hass
  /\ UNCHANGED <<config, states, data, previousDur, out, log, rate, read, svgTime, prior, sub, error,
               entitiesArr, fetches>>

\* one second of animation passes in every flow element
Tick ==
  /\ \A n \in MainFlows : NGt(Num(MaxElapsed), svgTime[n])
  /\ svgTime' = [n \in MainFlows |-> NAdd(svgTime[n], Num(1))]
  /\ UNCHANGED <<config, hass, states, data, previousDur, out, log, rate, read, prior, sub, error,
               entitiesArr, fetches>>

\* ------------------------------------------- the subscription callback
\* getStatistics of ./energy: the statistic of entity e over the period of
\* snapshot seq, in Wh; the solar total grows from snapshot to snapshot
Stat(seq, e) == IF e = "solar" THEN seq ELSE 1

\* the collection delivers a snapshot (lines 82-85): _data is assigned and
\* getStatistics is called with the entitiesArr of that moment; the
\* callback then waits for the result
Deliver ==
  /\ sub.poll = "resolved"
  /\ data.seq < MaxSnapshots
  /\ data' = [NoData EXCEPT !.received = TRUE, !.seq = data.seq + 1]
  /\ fetches' = fetches \cup {[seq |-> data.seq + 1, entitiesArr |-> entitiesArr]}
  /\ UNCHANGED <<config, hass, states, previousDur, out, log, rate, read, svgTime, prior,
                 sub, error, entitiesArr>>

\* a getStatistics call returns and its callback resumes (lines 86-92):
\* this.states is rebuilt from the statistics of that call, for the ids
\* hass.states knows
FetchComplete(f) ==
  /\ f \in fetches
  /\ states' = [e \in EntityIds |->
                 IF (\E i \in DOMAIN f.entitiesArr : f.entitiesArr[i] = e) /\ hass.states[e].present
                 THEN [hass.states[e] EXCEPT !.numeric = TRUE, !.value = Stat(f.seq, e)]
                 ELSE Missing]
  /\ fetches' = fetches \ {f}
  /\ UNCHANGED <<config, hass, data, previousDur, out, log, rate, read, svgTime, prior,
                 sub, error, entitiesArr>>

\* ------------------------------------------------------------ setConfig
\* this._config as setConfig assigns it (lines 105-115) from an argument
\* [object, entities, energy_date_selection, min_flow_rate, max_flow_rate];
\* a role without a key in entities has the kind "none"
ConfigFrom(raw) ==
  LET KindIn(role) ==
        IF \E i \in 1..Len(raw.entities) : raw.entities[i][1] = role
        THEN raw.entities[CHOOSE i \in 1..Len(raw.entities) : raw.entities[i][1] = role][2]
        ELSE "none"
  IN
  [NoConfig EXCEPT !.defined = TRUE,
                   !.grid = KindIn("grid"),
                   !.solar = KindIn("solar"),
                   !.battery = KindIn("battery"),
                   !.energy_date_selection = raw.energy_date_selection,
                   !.min_flow_rate = raw.min_flow_rate,
                   !.max_flow_rate = raw.max_flow_rate]

\* resetSubscriptions of ./energy/subscribe-mixin: the subscriptions are
\* dropped and hassSubscribe is called anew
resetSubscriptions == NoSub

\* setConfig(config) (lines 99-119): throws before any assignment when the
\* argument is no object or names no battery, grid or solar entity; else
\* assigns _config, repopulates entitiesArr and resets the subscriptions,
\* unless populateEntitiesArr throws on a null key
SetConfig(raw) ==
  LET cfg == ConfigFrom(raw)
      populated == populateEntitiesArr(raw.entities)
  IN  /\ IF ~raw.object \/ ~ConfigAccepted(cfg)
         THEN UNCHANGED <<config, entitiesArr, sub>>
         ELSE /\ config' = cfg
              /\ entitiesArr' = populated.arr
              /\ sub' = IF populated.threw THEN sub ELSE resetSubscriptions
      /\ UNCHANGED <<hass, states, data, previousDur, out, log, rate, read, svgTime, prior,
                     error, fetches>>

NoRate == [called |-> FALSE, value |-> 0, total |-> 0, result |-> Undef]
NoRead == [called |-> FALSE, entity |-> "undefined", value |-> 0, logged |-> FALSE]
NoHass == [defined |-> FALSE, states |-> EmptyTable]

\* ------------------------------------------------ reconciliation inputs
Kinds == {"none", "noentity", "combined", "split"}
\* roles whose inversion flag render() consults for the configured entities
InvertibleRoles(g, s, b) ==
  (IF g = "combined" THEN {"grid"} ELSE {}) \cup (IF s = "entity" THEN {"solar"} ELSE {})
  \cup (IF b = "combined" THEN {"battery"} ELSE {})

FlowConfigs ==
  {[NoConfig EXCEPT !.defined = TRUE, !.grid = g, !.solar = s, !.battery = b,
                    !.inverted_entities = inv,
                    !.gridTol = IF g = "none" THEN Null ELSE tol,
                    !.solarTol = IF s = "none" THEN Null ELSE tol,
                    !.batteryTol = IF b = "none" THEN Null ELSE tol,
                    !.energy_date_selection = "false",
                    !.min_flow_rate = 1, !.max_flow_rate = 6] :
     g \in Kinds, s \in {"none", "entity"}, b \in {"none", "combined", "split"},
     inv \in SUBSET {"grid", "solar", "battery"}, tol \in {Null, Some(1)}}

\* the entities a configuration names (populateEntitiesArr)
ConfiguredEntities(cfg) ==
  {GridConsumptionEntity(cfg), GridProductionEntity(cfg), SolarEntity(cfg),
   BatteryConsumptionEntity(cfg), BatteryProductionEntity(cfg),
   Individual1Entity(cfg), Individual2Entity(cfg), HomeEntity(cfg)} \ {"undefined"}

\* state tables holding a numeric watt-hour reading for each entity of es
TablesOver(es) ==
  {[e \in EntityIds |-> IF e \in es THEN Entry(r[e], UnitWh) ELSE Missing] : r \in [es -> Readings]}

InitFlow ==
  /\ config \in {c \in FlowConfigs : /\ ConfigAccepted(c)
                                     /\ c.inverted_entities \subseteq InvertibleRoles(c.grid, c.solar, c.battery)}
  /\ \E tbl \in TablesOver(ConfiguredEntities(config)) : hass = [defined |-> TRUE, states |-> tbl]
  /\ states = EmptyTable
  /\ data = NoData
  /\ previousDur = NoPreviousDur
  /\ out = NoOut
  /\ log = {}
  /\ rate = NoRate
  /\ read = NoRead
  /\ svgTime = NoSvgTime
  /\ prior = NoPrior
  /\ sub = NoSub
  /\ error = "none"
  /\ entitiesArr = populateEntitiesArr(Entities(config)).arr
  /\ fetches = {}

\* ------------------------------------------------------ setConfig alone
\* arguments of setConfig: a value that is no object, and objects whose
\* entities name some of grid, solar and battery as distinct keys in any
\* order; a key may hold null
ConfigInputs ==
  LET kinds == [grid |-> {"noentity", "combined", "split", "null"},
                solar |-> {"entity", "null"},
                battery |-> {"combined", "split", "null"}]
      Orders(rs) == {o \in [1..Cardinality(rs) -> rs] : \A i, j \in DOMAIN o : o[i] = o[j] => i = j}
      EntitiesOver ==
        UNION {UNION {{[i \in DOMAIN o |-> <<o[i], k[o[i]]>>] :
                         k \in {x \in [rs -> UNION {kinds[r] : r \in rs}] : \A r \in rs : x[r] \in kinds[r]}}
                      : o \in Orders(rs)} : rs \in SUBSET DOMAIN kinds}
  IN  {[object |-> b, entities |-> e, energy_date_selection |-> "true",
        min_flow_rate |-> 1, max_flow_rate |-> 6] : b \in BOOLEAN, e \in EntitiesOver}

\* the card as constructed: no configuration, no hass
InitConfig ==
  /\ config = NoConfig
  /\ hass = NoHass
  /\ states = EmptyTable
  /\ data = NoData
  /\ previousDur = NoPreviousDur
  /\ out = NoOut
  /\ log = {}
  /\ rate = NoRate
  /\ read = NoRead
  /\ svgTime = NoSvgTime
  /\ prior = NoPrior
  /\ sub = NoSub
  /\ error = "none"
  /\ entitiesArr = <<>>
  /\ fetches = {}

NextConfig == (\E raw \in ConfigInputs : SetConfig(raw)) \/ HassSubscribe(TRUE)
SpecConfig == InitConfig /\ [][NextConfig]_vars

\* ------------------------------------------------- the card in use
\* the card as constructed and given a hass object whose grid and solar
\* entities report 1 Wh
InitCard ==
  /\ config = NoConfig
  /\ hass = [defined |-> TRUE,
             states |-> [EmptyTable EXCEPT !["grid_c"] = Entry(1, UnitWh),
                                           !["solar"] = Entry(1, UnitWh)]]
  /\ states = EmptyTable
  /\ data = NoData
  /\ previousDur = NoPreviousDur
  /\ out = NoOut
  /\ log = {}
  /\ rate = NoRate
  /\ read = NoRead
  /\ svgTime = NoSvgTime
  /\ prior = NoPrior
  /\ sub = NoSub
  /\ error = "none"
  /\ entitiesArr = <<>>
  /\ fetches = {}

\* setConfig with a grid, a grid and solar, or a solar-only configuration,
\* the subscription and its callbacks, and render
NextCard ==
  \/ \E raw \in {r \in ConfigInputs :
                   /\ r.object
                   /\ r.entities \in {<<<<"grid", "combined">>>>, <<<<"solar", "entity">>>>,
                                      <<<<"grid", "combined">>, <<"solar", "entity">>>>}} :
       SetConfig(raw)
  \/ HassSubscribe(TRUE)
  \/ Deliver
  \/ \E f \in fetches : FetchComplete(f)
  \/ RenderObserved
SpecCard == InitCard /\ [][NextCard]_vars

NextFlow == Render
SpecFlow == InitFlow /\ [][NextFlow]_vars

\* ------------------------------------------- lines and particles alone
\* every layout of the card under each value of display_zero_lines
InitLine ==
  /\ config \in {[NoConfig EXCEPT !.defined = TRUE, !.grid = g, !.solar = s, !.battery = b,
                                  !.energy_date_selection = "false",
                                  !.display_zero_lines = z,
                                  !.min_flow_rate = 1, !.max_flow_rate = 6] :
                   g \in Kinds \ {"none"}, s \in {"none", "entity"},
                   b \in {"none", "combined", "split"}, z \in {"true", "false", "undefined"}}
  /\ ConfigAccepted(config)
  /\ \E tbl \in TablesOver(ConfiguredEntities(config)) : hass = [defined |-> TRUE, states |-> tbl]
  /\ states = EmptyTable
  /\ data = NoData
  /\ previousDur = NoPreviousDur
  /\ out = NoOut
  /\ log = {}
  /\ rate = NoRate
  /\ read = NoRead
  /\ svgTime = NoSvgTime
  /\ prior = NoPrior
  /\ sub = NoSub
  /\ error = "none"
  /\ entitiesArr = populateEntitiesArr(Entities(config)).arr
  /\ fetches = {}

NextLine == Render
SpecLine == InitLine /\ [][NextLine]_vars

\* ------------------------------------------------------- gauge inputs
\* configurations with period statistics (energy_date_selection: true),
\* with and without an individual load
ArcConfigs ==
  {[NoConfig EXCEPT !.defined = TRUE, !.grid = g, !.solar = s, !.battery = b,
                    !.individual1 = i, !.energy_date_selection = "true",
                    !.min_flow_rate = 1, !.max_flow_rate = 6] :
     g \in {"combined", "split"}, s \in {"none", "entity"}, b \in {"none", "combined"},
     i \in BOOLEAN}

\* state tables holding a numeric kilowatt-hour reading for each entity of es
KWhTablesOver(es) ==
  {[e \in EntityIds |-> IF e \in es THEN Entry(r[e], UnitkWh) ELSE Missing] : r \in [es -> Readings]}

\* snapshots of the energy collection: not yet delivered, or delivered with
\* or without a CO2 signal entity and fossil consumption statistics
DataSnapshots ==
  {NoData} \cup
  {[received |-> TRUE, co2SignalEntity |-> c, hasFossil |-> h, fossil |-> x, seq |-> 1] :
     c \in BOOLEAN, h \in BOOLEAN, x \in 0..MaxFossil}

InitArc ==
  /\ config \in ArcConfigs
  /\ states \in KWhTablesOver(ConfiguredEntities(config))
  /\ hass = [defined |-> TRUE, states |-> states]
  /\ data \in {d \in DataSnapshots : d.hasFossil \/ d.fossil = 0}
  /\ previousDur = NoPreviousDur
  /\ out = NoOut
  /\ log = {}
  /\ rate = NoRate
  /\ read = NoRead
  /\ svgTime = NoSvgTime
  /\ prior = NoPrior
  /\ sub = NoSub
  /\ error = "none"
  /\ entitiesArr = populateEntitiesArr(Entities(config)).arr
  /\ fetches = {}

NextArc == Render
SpecArc == InitArc /\ [][NextArc]_vars

\* -------------------------------------------------- home value inputs
\* configurations with individual loads and the home value options, read
\* from live kilowatt-hour sensors
HomeConfigs ==
  {[NoConfig EXCEPT !.defined = TRUE, !.grid = "combined", !.solar = s,
                    !.individual1 = TRUE, !.individual2 = i2,
                    !.home_override = ov, !.subtract_individual = si,
                    !.energy_date_selection = "false",
                    !.min_flow_rate = 1, !.max_flow_rate = 6] :
     s \in {"none", "entity"}, i2 \in BOOLEAN, ov \in BOOLEAN, si \in BOOLEAN}

InitHome ==
  /\ config \in HomeConfigs
  /\ \E tbl \in KWhTablesOver(ConfiguredEntities(config)) : hass = [defined |-> TRUE, states |-> tbl]
  /\ states = EmptyTable
  /\ data = NoData
  /\ previousDur = NoPreviousDur
  /\ out = NoOut
  /\ log = {}
  /\ rate = NoRate
  /\ read = NoRead
  /\ svgTime = NoSvgTime
  /\ prior = NoPrior
  /\ sub = NoSub
  /\ error = "none"
  /\ entitiesArr = populateEntitiesArr(Entities(config)).arr
  /\ fetches = {}

NextHome == Render
SpecHome == InitHome /\ [][NextHome]_vars

\* ---------------------------------------------- animation over updates
\* a card on live sensors whose readings change between renders while the
\* flow animations run
AnimConfigs ==
  {[NoConfig EXCEPT !.defined = TRUE, !.grid = "combined", !.solar = "entity",
                    !.energy_date_selection = "false",
                    !.min_flow_rate = 1, !.max_flow_rate = 6]}

InitAnim ==
  /\ config \in AnimConfigs
  /\ \E tbl \in TablesOver(ConfiguredEntities(config)) : hass = [defined |-> TRUE, states |-> tbl]
  /\ states = EmptyTable
  /\ data = NoData
  /\ previousDur = NoPreviousDur
  /\ out = NoOut
  /\ log = {}
  /\ rate = NoRate
  /\ read = NoRead
  /\ svgTime = NoSvgTime
  /\ prior = NoPrior
  /\ sub = NoSub
  /\ error = "none"
  /\ entitiesArr = populateEntitiesArr(Entities(config)).arr
  /\ fetches = {}

NextAnim == Render \/ (\E e \in EntityIds : SetHass(e)) \/ Tick
SpecAnim == InitAnim /\ [][NextAnim]_vars

\* ------------------------------------- subscription without a collection
\* cards with each setting of energy_date_selection, on a dashboard where
\* getEnergyDataCollection never returns a collection
SubConfigs ==
  {[NoConfig EXCEPT !.defined = TRUE, !.grid = "combined",
                    !.energy_date_selection = eds,
                    !.min_flow_rate = 1, !.max_flow_rate = 6] :
     eds \in {"true", "false", "undefined"}}

InitSub ==
  /\ config \in SubConfigs
  /\ hass \in {NoHass} \cup
              {[defined |-> TRUE, states |-> tbl] : tbl \in TablesOver(ConfiguredEntities(config))}
  /\ states = EmptyTable
  /\ data = NoData
  /\ previousDur = NoPreviousDur
  /\ out = NoOut
  /\ log = {}
  /\ rate = NoRate
  /\ read = NoRead
  /\ svgTime = NoSvgTime
  /\ prior = NoPrior
  /\ sub = NoSub
  /\ error = "none"
  /\ entitiesArr = populateEntitiesArr(Entities(config)).arr
  /\ fetches = {}

NextSub == HassSubscribe(FALSE) \/ Poll(FALSE) \/ Watchdog \/ Advance \/ Render
SpecSub == InitSub /\ [][NextSub]_vars
\* the browser runs a due timer callback and time passes
SpecSubLive ==
  SpecSub /\ WF_vars(HassSubscribe(FALSE)) /\ WF_vars(Poll(FALSE)) /\ WF_vars(Watchdog)
          /\ WF_vars(Advance)

\* ------------------------------------------------- renders in sequence
\* the same card rendered again and again while the grid reading changes,
\* each render keeping the history of the one before
InitReplay == InitAnim

NextReplay == RenderObserved \/ SetHass("grid_c")
SpecReplay == InitReplay /\ [][NextReplay]_vars

\* -------------------------------------------------- rate mapper inputs
RateConfigs ==
  {[NoConfig EXCEPT !.defined = TRUE, !.grid = "combined",
                    !.use_new_flow_rate_model = m,
                    !.min_flow_rate = lo, !.max_flow_rate = hi,
                    !.min_expected_energy = elo, !.max_expected_energy = ehi] :
     m \in BOOLEAN, lo \in 1..MaxRateCfg, hi \in 1..MaxRateCfg,
     elo \in 0..MaxRateCfg, ehi \in 1..(MaxRateCfg + 1)}

\* one call of this.circleRate(value, total)
CallCircleRate(value, total) ==
  /\ config.defined
  /\ rate' = [called |-> TRUE, value |-> value, total |-> total,
              result |-> circleRate(config, Num(value), Num(total))]
  /\ UNCHANGED <<config, hass, states, data, previousDur, out, log, read, svgTime, prior, sub, error,
               entitiesArr, fetches>>

InitRate ==
  /\ config \in RateConfigs
  /\ hass = [defined |-> TRUE, states |-> EmptyTable]
  /\ states = EmptyTable
  /\ data = NoData
  /\ previousDur = NoPreviousDur
  /\ out = NoOut
  /\ log = {}
  /\ rate = NoRate
  /\ read = NoRead
  /\ svgTime = NoSvgTime
  /\ prior = NoPrior
  /\ sub = NoSub
  /\ error = "none"
  /\ entitiesArr = populateEntitiesArr(Entities(config)).arr
  /\ fetches = {}

NextRate == \E value \in 0..MaxRateValue, total \in 0..MaxRateValue : CallCircleRate(value, total)
SpecRate == InitRate /\ [][NextRate]_vars

\* -------------------------------------------------- state reader inputs
ReadConfigs ==
  {[NoConfig EXCEPT !.defined = TRUE, !.solar = "entity", !.energy_date_selection = eds] :
     eds \in {"true", "false", "undefined"}}

\* what a table can hold for one entity: nothing, a textual state, a number
LiveEntries == {Missing, Unavailable} \cup {Entry(v, u) : v \in Readings, u \in Units}
\* this.states[id] = { ...hass.states[id], state: String(stats[id]) } exists
\* only for ids that have statistics and a live entry, whose unit it keeps
StatEntries(live) ==
  {Missing} \cup (IF live.present THEN {Entry(v, live.unit) : v \in Readings} ELSE {})

\* one call of this.getEntityStateWatthours(entity)
CallGetEntityStateWatthours(entity) ==
  /\ config.defined /\ hass.defined
  /\ LET r == getEntityStateWatthours(config, hass.states, states, entity)
     IN  /\ read' = [called |-> TRUE, entity |-> entity, value |-> r.value, logged |-> r.logged]
         /\ log' = IF r.logged THEN {LogName(entity)} ELSE {}
  /\ UNCHANGED <<config, hass, states, data, previousDur, out, rate, svgTime, prior, sub, error,
               entitiesArr, fetches>>

InitRead ==
  /\ config \in ReadConfigs
  /\ \E live \in LiveEntries :
       /\ hass = [defined |-> TRUE, states |-> [EmptyTable EXCEPT !["solar"] = live]]
       /\ \E stat \in StatEntries(live) : states = [EmptyTable EXCEPT !["solar"] = stat]
  /\ data = [NoData EXCEPT !.received = TRUE, !.seq = 1]
  /\ previousDur = NoPreviousDur
  /\ out = NoOut
  /\ log = {}
  /\ rate = NoRate
  /\ read = NoRead
  /\ svgTime = NoSvgTime
  /\ prior = NoPrior
  /\ sub = NoSub
  /\ error = "none"
  /\ entitiesArr = populateEntitiesArr(Entities(config)).arr
  /\ fetches = {}

NextRead == \E entity \in {"solar", "ind1", "undefined"} : CallGetEntityStateWatthours(entity)
SpecRead == InitRead /\ [][NextRead]_vars

\* ======================================================== properties
IsCard == out.kind = "card"
\* the candidate solarConsumption before the shortfall branch (line 534)
Candidate == out.t.totalSolarProduction - out.t.totalToGrid - out.t.totalBatteryIn
\* the solar shortfall s = totalToGrid + totalBatteryIn - totalSolarProduction
ShortfallS == out.t.totalToGrid + out.t.totalBatteryIn - out.t.totalSolarProduction

\* C1: after the reconciliation in render every flow field is >= 0
\* (gridToHome, batteryToHome, solarToHome, solarToBattery, solarToGrid,
\* batteryToGrid, gridToBattery, totalHomeConsumption and
\* totalIndividualConsumption), for every input.
C1_AllFlowsNonNegative ==
  IsCard =>
    /\ out.f.gridConsumption >= 0
    /\ out.f.batteryConsumption >= 0
    /\ OrZero(out.f.solarConsumption) >= 0
    /\ OrZero(out.f.solarToBattery) >= 0
    /\ out.f.solarToGrid >= 0
    /\ OrZero(out.f.batteryToGrid) >= 0
    /\ OrZero(out.f.batteryFromGrid) >= 0
    /\ out.f.totalHomeConsumption >= 0
    /\ out.f.totalIndividualConsumption >= 0

\* C2: whenever solar is present, solarToHome + solarToBattery + solarToGrid
\* equals totalSolarProduction.
C2_SolarSplitsExactly ==
  (IsCard /\ out.t.hasSolarProduction) =>
    OrZero(out.f.solarConsumption) + OrZero(out.f.solarToBattery) + out.f.solarToGrid
      = out.t.totalSolarProduction

\* C3: with a battery, when the solar shortfall s is positive and exceeds
\* totalFromGrid, batteryToGrid = s - totalFromGrid after reconciliation.
C3_ExcessBecomesBatteryToGrid ==
  (IsCard /\ out.t.hasBattery /\ out.t.hasSolarProduction
     /\ ShortfallS > 0 /\ ShortfallS > out.t.totalFromGrid) =>
    out.f.batteryToGrid = Some(ShortfallS - out.t.totalFromGrid)

\* C4: with a battery and a negative candidate solarConsumption,
\* batteryFromGrid = min(|candidate|, totalFromGrid), solarToHome = 0,
\* gridToHome = max(totalFromGrid - batteryFromGrid, 0) = totalFromGrid -
\* batteryFromGrid, and batteryFromGrid never exceeds totalFromGrid.
C4_ShortfallFromGridCapped ==
  (IsCard /\ out.t.hasBattery /\ out.t.hasSolarProduction /\ Candidate < 0) =>
    /\ out.f.batteryFromGrid = Some(Min(Abs(Candidate), out.t.totalFromGrid))
    /\ out.f.solarConsumption = Some(0)
    /\ out.f.gridConsumption = Max(out.t.totalFromGrid - out.f.batteryFromGrid.v, 0)
    /\ out.f.gridConsumption = out.t.totalFromGrid - out.f.batteryFromGrid.v
    /\ out.f.batteryFromGrid.v <= out.t.totalFromGrid

\* C4 witness: a rendered shortfall larger than a positive grid import, so
\* that the cap is applied and part of the import still reaches the battery
C4_Witness ==
  /\ IsCard /\ out.t.hasBattery /\ out.t.hasSolarProduction
  /\ Candidate < 0 /\ Abs(Candidate) > out.t.totalFromGrid
  /\ out.t.totalFromGrid > 0
  /\ out.f.batteryFromGrid = Some(out.t.totalFromGrid)

\* C8: in ratio mode every duration of newDur lies in [minRate, maxRate],
\* for any readings, including a zero total.
C8_RatioDurationsWithinBounds ==
  (IsCard /\ ~config.use_new_flow_rate_model) =>
    \A n \in AllFlows :
      /\ IsFinite(out.newDur[n])
      /\ NGe(out.newDur[n], Num(config.min_flow_rate))
      /\ NGe(Num(config.max_flow_rate), out.newDur[n])

\* C9: for every configuration setConfig accepts and every snapshot, render
\* completes without throwing.
C9_RenderNeverThrows ==
  (config.defined /\ ConfigAccepted(config)) => out.kind # "threw"

\* sum of the arcs the template draws on the home gauge
ArcSum == NAdd(NAdd(NAdd(out.a.solarArc, out.a.batteryArc), out.a.lowCarbonArc), out.a.gridArc)

\* C5: for totalHomeConsumption > 0 the arcs drawn on the home gauge (solar,
\* battery, low-carbon under the carbon overlay, grid) sum to exactly
\* circleCircumference, with and without the carbon overlay.
C5_ArcsSumToCircumference ==
  (IsCard /\ out.f.totalHomeConsumption > 0) => ArcSum = circleCircumference

\* C6: if totalHomeConsumption = 0 every computed arc length is 0
\* (homeSolarCircumference, homeBatteryCircumference and, with the carbon
\* overlay, homeGridCircumference): no NaN or Infinity is produced.
C6_ZeroHomeGivesZeroArcs ==
  (IsCard /\ out.f.totalHomeConsumption = 0) =>
    /\ out.a.homeSolarCircumference = Num(0)
    /\ out.a.homeBatteryCircumference = Num(0)
    /\ (out.a.overlay => out.a.homeGridCircumference = Num(0))

\* C7: in expected-range mode with minRate <= maxRate and minExpectedEnergy <
\* maxExpectedEnergy, circleRate(value, total) lies in [minRate, maxRate] for
\* every non-negative value and does not depend on total.
C7_ExpectedRangeWithinBounds ==
  (rate.called /\ config.use_new_flow_rate_model
     /\ config.min_flow_rate <= config.max_flow_rate
     /\ config.min_expected_energy < config.max_expected_energy) =>
    /\ IsFinite(rate.result)
    /\ NGe(rate.result, Num(config.min_flow_rate))
    /\ NGe(Num(config.max_flow_rate), rate.result)
    /\ \A total \in 0..MaxRateValue :
         circleRate(config, Num(rate.value), Num(total)) = rate.result

\* the table getEntityStateWatthours reads the value from
ReadTable == IF config.energy_date_selection # "false" THEN states ELSE hass.states

\* C10: getEntityStateWatthours(entity) returns 0 and logs the diagnostic
\* naming the entity whenever entity is undefined, absent from the state
\* table or not numeric there; otherwise it returns the numeric state, times
\* 1000 exactly when the unit starts with "kWh" case-insensitively.
C10_ReaderContract ==
  read.called =>
    LET entry == Lookup(ReadTable, read.entity)
    IN  IF read.entity = "undefined" \/ ~entry.present \/ ~entry.numeric
        THEN read.value = 0 /\ read.logged /\ log = {LogName(read.entity)}
        ELSE /\ ~read.logged
             /\ read.value = IF entry.unit \in {UnitkWh, UnitKWH, UnitkWhPerDay}
                             THEN entry.value * 1000 ELSE entry.value

\* C11: with home.subtract_individual set and no override entity, the home
\* value shown is totalHomeConsumption - totalIndividualConsumption floored
\* at 0, so it is never negative
C11_HomeUsageFlooredAtZero ==
  (IsCard /\ config.subtract_individual /\ ~config.home_override) =>
    /\ out.home.homeUsageToDisplay =
         displayValue(config, Max(out.f.totalHomeConsumption - out.f.totalIndividualConsumption, 0))
    /\ NGe(out.home.homeUsageToDisplay.value, Num(0))

\* C12: under the carbon overlay, when totalFromGrid is 0 the
\* highCarbonConsumption is 0 (no division by zero), so neither
\* homeGridCircumference nor lowCarbonPercentage is NaN or Infinity
C12_OverlayGuardsZeroImport ==
  (IsCard /\ out.a.overlay /\ out.t.totalFromGrid = 0) =>
    /\ out.a.highCarbonConsumption = Num(0)
    /\ IsFinite(out.a.homeGridCircumference)
    /\ IsFinite(out.a.lowCarbonPercentage)

\* the arc each home source is drawn with in this update
DrawnArc ==
  [battery |-> out.a.batteryArc, solar |-> out.a.solarArc,
   grid |-> out.a.gridArc, gridNonFossil |-> out.a.lowCarbonArc]

\* C13: homeLargestSource names a source whose arc, as computed for this
\* update, is the largest among battery, solar, grid and low-carbon grid
C13_LargestSourceHasLargestArc ==
  IsCard => \A i \in 1..Len(HomeSourceKeys) :
              NGe(DrawnArc[out.a.homeLargestSource], DrawnArc[HomeSourceKeys[i]])

\* the arc a low-carbon share of the home consumption would span
LowCarbonShareArc ==
  NMul(circleCircumference,
       NDiv(NSub(Num(out.f.gridConsumption), out.a.highCarbonConsumption),
            Num(out.f.totalHomeConsumption)))

FlowValue(o, flowName) ==
  CASE flowName = "batteryGrid" -> BatteryGridValue(o.f.batteryFromGrid, o.f.batteryToGrid)
    [] flowName = "batteryToHome" -> o.f.batteryConsumption
    [] flowName = "gridToHome" -> o.f.gridConsumption
    [] flowName = "solarToBattery" -> OrZero(o.f.solarToBattery)
    [] flowName = "solarToGrid" -> o.f.solarToGrid
    [] flowName = "solarToHome" -> OrZero(o.f.solarConsumption)

\* C15: when a render gives a flow that was animated with duration oldRate
\* a different duration newRate, the playback position of the animation in
\* flight becomes elapsed * (newRate / oldRate)
C15_ElapsedRescaledOnRateChange ==
  [][\A n \in MainFlows :
       (/\ out.kind = "card" /\ out'.kind = "card"
        /\ FlowValue(out, n) > 0 /\ FlowValue(out', n) > 0
        /\ IsFinite(previousDur[n]) /\ IsFinite(previousDur'[n])
        /\ previousDur'[n] # previousDur[n])
       => svgTime'[n] = NMul(svgTime[n], NDiv(previousDur'[n], previousDur[n]))]_vars

\* the subscription waits for energy data that never arrives
AwaitsData == sub.called /\ config.energy_date_selection # "false"

\* C16: when the energy data collection never becomes available, the poll
\* chain runs no later than the first callback past the 10 s timeout, it
\* ends in the rejection, this.error then holds the 'No energy data
\* received' error and nothing replaces it (the 20 s watchdog finds it
\* set), and render shows no diagram while no snapshot has arrived
C16_NoCollectionEndsInOneError ==
  /\ [](sub.poll = "due" => Elapsed <= energyDataTimeout + (1 + MaxLate) * PollInterval)
  /\ [](error \in {"none", "timeout"})
  /\ [][error # "none" => error' = error]_vars
  /\ []((sub.watchdog = "fired") => (sub.poll = "rejected" /\ error = "timeout"))
  /\ []((~data.received /\ config.energy_date_selection # "false") =>
          out.kind \in {"none", "empty", "loading"})
  /\ (AwaitsData ~> (sub.poll = "rejected" /\ error = "timeout"))

\* the 20 s watchdog has run after the rejection and the card still shows
\* the loading text
C16_Witness ==
  /\ AwaitsData /\ sub.watchdog = "fired" /\ sub.poll = "rejected"
  /\ error = "timeout" /\ out.kind = "loading"

\* the durations a result leaves in previousDur
DurationsOf(o) == [n \in MainFlows |-> o.newDur[n]]

SignedReading(entity, entityType) ==
  LET r == getEntityStateWatthours(config, hass.states, states, entity).value
  IN  IF entityType \in config.inverted_entities THEN -r ELSE r

\* a magnitude after the role's display_zero_tolerance
Tolerated(tol, x) == IF ~tol.null /\ x <= tol.v THEN 0 ELSE x

\* C18 as stated: for a combined bidirectional entity with reading r the
\* consumption side is max(r, 0) and the production side |min(r, 0)|, the
\* inversion flag acting as a negation of r; at most one side is nonzero
\* and the two sum to |r|
C18_CombinedPolarity ==
  IsCard =>
    /\ config.grid = "combined" =>
         LET r == SignedReading("grid_c", "grid")
         IN  /\ out.t.totalFromGrid = Max(r, 0)
             /\ out.t.totalToGrid = Abs(Min(r, 0))
             /\ out.t.totalFromGrid = 0 \/ out.t.totalToGrid = 0
             /\ out.t.totalFromGrid + out.t.totalToGrid = Abs(r)
    /\ config.battery = "combined" =>
         LET r == SignedReading("bat_c", "battery")
         IN  /\ out.t.totalBatteryOut = Max(r, 0)
             /\ out.t.totalBatteryIn = Abs(Min(r, 0))
             /\ out.t.totalBatteryOut = 0 \/ out.t.totalBatteryIn = 0
             /\ out.t.totalBatteryOut + out.t.totalBatteryIn = Abs(r)

\* C18 amended: each side is max(r, 0) resp. |min(r, 0)| of the reading
\* (negated under the inversion flag) and is then zeroed when it does not
\* exceed the role's display_zero_tolerance; at most one side is nonzero and
\* the two sum to |r|, or to 0 when |r| is within the tolerance
C18_CombinedPolarityWithTolerance ==
  IsCard =>
    /\ config.grid = "combined" =>
         LET r == SignedReading("grid_c", "grid")
         IN  /\ out.t.totalFromGrid = Tolerated(config.gridTol, Max(r, 0))
             /\ out.t.totalToGrid = Tolerated(config.gridTol, Abs(Min(r, 0)))
             /\ out.t.totalFromGrid = 0 \/ out.t.totalToGrid = 0
             /\ out.t.totalFromGrid + out.t.totalToGrid = Tolerated(config.gridTol, Abs(r))
    /\ config.battery = "combined" =>
         LET r == SignedReading("bat_c", "battery")
         IN  /\ out.t.totalBatteryOut = Tolerated(config.batteryTol, Max(r, 0))
             /\ out.t.totalBatteryIn = Tolerated(config.batteryTol, Abs(Min(r, 0)))
             /\ out.t.totalBatteryOut = 0 \/ out.t.totalBatteryIn = 0
             /\ out.t.totalBatteryOut + out.t.totalBatteryIn = Tolerated(config.batteryTol, Abs(r))

\* an inverted combined grid entity and an inverted combined battery entity
\* whose positive readings land on the production sides
C18_Witness ==
  /\ IsCard /\ config.grid = "combined" /\ config.battery = "combined"
  /\ {"grid", "battery"} \subseteq config.inverted_entities
  /\ out.t.totalToGrid = MaxReading /\ out.t.totalFromGrid = 0
  /\ out.t.totalBatteryIn = MaxReading /\ out.t.totalBatteryOut = 0

\* C19: with solar, without a battery, and more exported than produced,
\* solarToHome is 0, there is no batteryFromGrid and no batteryToGrid, and
\* solarToGrid is the whole totalToGrid, above the production
C19_ExportBeyondSolarWithoutBattery ==
  (/\ IsCard /\ out.t.hasSolarProduction /\ ~out.t.hasBattery
   /\ out.t.totalToGrid > out.t.totalSolarProduction) =>
    /\ out.f.solarConsumption = Some(0)
    /\ out.f.batteryFromGrid = Null
    /\ out.f.batteryToGrid = Null
    /\ out.f.solarToGrid = out.t.totalToGrid
    /\ out.f.solarToGrid > out.t.totalSolarProduction

\* solar produced 1, the grid meter reports MaxReading exported, no battery
C19_Witness ==
  /\ IsCard /\ out.t.hasSolarProduction /\ ~out.t.hasBattery
  /\ out.t.totalSolarProduction = 1 /\ out.t.totalToGrid = MaxReading
  /\ out.f.solarToGrid = MaxReading

\* C20: with solar and battery, and the production covering export plus
\* battery charge, solarToHome = production - export - charge, solarToGrid
\* = totalToGrid, solarToBattery = totalBatteryIn, batteryToGrid = 0, there
\* is no batteryFromGrid, and gridToHome = totalFromGrid
C20_SolarCoversExportAndCharge ==
  (/\ IsCard /\ out.t.hasSolarProduction /\ out.t.hasBattery
   /\ out.t.totalSolarProduction >= out.t.totalToGrid + out.t.totalBatteryIn) =>
    /\ out.f.solarConsumption =
         Some(out.t.totalSolarProduction - out.t.totalToGrid - out.t.totalBatteryIn)
    /\ out.f.solarToGrid = out.t.totalToGrid
    /\ out.f.solarToBattery = Some(out.t.totalBatteryIn)
    /\ out.f.batteryToGrid = Some(0)
    /\ out.f.batteryFromGrid = Null
    /\ out.f.gridConsumption = out.t.totalFromGrid

\* C20 amended: the same attribution, for a battery charge total and a grid
\* import total that are not negative
C20_SolarCoversExportAndChargeNonNegative ==
  (out.t.totalBatteryIn >= 0 /\ out.t.totalFromGrid >= 0) => C20_SolarCoversExportAndCharge

\* production MaxReading, 1 exported, 1 charged: the rest reaches the home
C20_Witness ==
  /\ IsCard /\ out.t.hasSolarProduction /\ out.t.hasBattery
  /\ out.t.totalSolarProduction = MaxReading /\ out.t.totalToGrid = 1 /\ out.t.totalBatteryIn = 1
  /\ out.t.totalFromGrid >= 0
  /\ out.f.solarConsumption = Some(MaxReading - 2)
  /\ out.f.solarToBattery = Some(1) /\ out.f.batteryToGrid = Some(0)

\* C21: without a battery, with solar producing nothing (absent or reading
\* 0) and nothing exported, a grid import g >= 0 gives gridToHome = g and
\* totalHomeConsumption = g, and every other flow is 0 or unset
C21_GridOnlyFeedsHome ==
  (/\ IsCard /\ ~out.t.hasBattery /\ out.t.totalSolarProduction = 0
   /\ out.t.totalToGrid = 0 /\ out.t.totalFromGrid >= 0) =>
    /\ out.f.gridConsumption = out.t.totalFromGrid
    /\ out.f.totalHomeConsumption = out.t.totalFromGrid
    /\ OrZero(out.f.solarConsumption) = 0
    /\ OrZero(out.f.solarToBattery) = 0
    /\ out.f.solarToGrid = 0
    /\ out.f.batteryConsumption = 0
    /\ OrZero(out.f.batteryToGrid) = 0
    /\ OrZero(out.f.batteryFromGrid) = 0

\* MaxReading imported, a solar entity that reads 0, no battery
C21_Witness ==
  /\ IsCard /\ ~out.t.hasBattery /\ out.t.hasSolarProduction
  /\ out.t.totalSolarProduction = 0 /\ out.t.totalToGrid = 0
  /\ out.t.totalFromGrid = MaxReading /\ out.f.gridConsumption = MaxReading
  /\ out.f.totalHomeConsumption = MaxReading

\* the magnitude the template tests for a path (lines 1593-1760)
LineMagnitude(o, flowName) ==
  IF flowName = "batteryGrid"
  THEN Max(OrZero(o.f.batteryFromGrid), OrZero(o.f.batteryToGrid))
  ELSE FlowValue(o, flowName)

\* the magnitude a particle stands for
ParticleMagnitude(o, particle) ==
  CASE particle = "batteryFromGrid" -> OrZero(o.f.batteryFromGrid)
    [] particle = "batteryToGrid" -> OrZero(o.f.batteryToGrid)
    [] OTHER -> FlowValue(o, particle)

\* both ends of the flow's path are on the card (lines 1593-1760)
EndsShown(o, flowName) ==
  CASE flowName = "solarToHome" -> o.t.hasSolarProduction
    [] flowName = "solarToGrid" -> o.t.hasReturnToGrid /\ o.t.hasSolarProduction
    [] flowName = "solarToBattery" -> o.t.hasBattery /\ o.t.hasSolarProduction
    [] flowName = "gridToHome" -> o.t.hasGrid
    [] flowName = "batteryToHome" -> o.t.hasBattery
    [] flowName = "batteryGrid" -> o.t.hasGrid /\ o.t.hasBattery

\* C22 as stated: for each main flow the particle is rendered only when the
\* flow magnitude is nonzero, and the path is drawn when display_zero_lines
\* is not false or the magnitude is > 0
C22_PathDrawnUnlessZeroHidden ==
  IsCard =>
    /\ \A p \in DOMAIN out.particles : out.particles[p] => ParticleMagnitude(out, p) # 0
    /\ \A n \in MainFlows :
         (config.display_zero_lines # "false" \/ LineMagnitude(out, n) > 0) => out.lines[n]

\* C22 amended: the path of a flow is drawn exactly when both its ends are
\* on the card and display_zero_lines is not false or the magnitude is > 0;
\* a particle is rendered exactly on a drawn path whose flow is nonzero
C22_PathDrawnBetweenShownEnds ==
  IsCard =>
    /\ \A n \in MainFlows :
         out.lines[n] <=> (/\ EndsShown(out, n)
                           /\ (config.display_zero_lines # "false" \/ LineMagnitude(out, n) > 0))
    /\ \A p \in DOMAIN out.particles :
         out.particles[p] <=>
           (/\ out.lines[IF p \in MainFlows THEN p ELSE "batteryGrid"]
            /\ ParticleMagnitude(out, p) # 0)

\* display_zero_lines is false and a zero flow between shown ends has
\* neither path nor particle, while a positive one has both
C22_Witness ==
  /\ IsCard /\ config.display_zero_lines = "false"
  /\ out.t.hasSolarProduction /\ OrZero(out.f.solarConsumption) = 0
  /\ ~out.lines.solarToHome /\ ~out.particles.solarToHome
  /\ out.f.gridConsumption > 0 /\ out.lines.gridToHome /\ out.particles.gridToHome

\* C24: with a battery and no solar, batteryToGrid = totalToGrid,
\* solarToGrid = 0, there is no batteryFromGrid, and
\* batteryToHome = totalBatteryOut - totalToGrid
C24_BatteryAloneCarriesExport ==
  (IsCard /\ out.t.hasBattery /\ ~out.t.hasSolarProduction) =>
    /\ out.f.batteryToGrid = Some(out.t.totalToGrid)
    /\ out.f.solarToGrid = 0
    /\ out.f.batteryFromGrid = Null
    /\ out.f.batteryConsumption = out.t.totalBatteryOut - out.t.totalToGrid

\* a battery without solar that discharges more than is exported
C24_Witness ==
  /\ IsCard /\ out.t.hasBattery /\ ~out.t.hasSolarProduction
  /\ out.t.totalToGrid > 0 /\ out.t.totalBatteryOut > out.t.totalToGrid
  /\ out.f.batteryToGrid = Some(out.t.totalToGrid)
  /\ out.f.batteryConsumption = out.t.totalBatteryOut - out.t.totalToGrid

\* C27: batteryFromGrid and batteryToGrid are never both positive in the
\* same update
C27_BatteryGridOneDirection ==
  IsCard => ~(OrZero(out.f.batteryFromGrid) > 0 /\ OrZero(out.f.batteryToGrid) > 0)

\* C28: whenever a battery-grid particle is rendered, newDur.batteryGrid
\* is the duration computed from the magnitude of that particle's flow
C28_BatteryGridTimedByItsFlow ==
  IsCard =>
    \A p \in {"batteryFromGrid", "batteryToGrid"} :
      out.particles[p] =>
        out.newDur.batteryGrid =
          circleRate(config, Num(ParticleMagnitude(out, p)), Num(out.f.totalLines))

\* C29: for every value of energy_date_selection, getEntityStateWatthours
\* tests availability on the table it reads: an entity that is numeric in
\* the table read yields that value (in Wh) without a diagnostic, and one
\* missing from the table read yields 0 with the diagnostic, never a
\* silent 0
C29_AvailabilityOnTableRead ==
  (read.called /\ read.entity # "undefined") =>
    LET entry == Lookup(ReadTable, read.entity)
    IN  /\ isNumberValue(entry) =>
             /\ ~read.logged
             /\ read.value = IF startsWith(toUpperCase(entry.unit), UnitKWH)
                             THEN entry.value * 1000 ELSE entry.value
        /\ ~entry.present => (read.value = 0 /\ read.logged)

\* C25: for minRate <= maxRate (and total > 0 in ratio mode,
\* minExpectedEnergy < maxExpectedEnergy in expected-range mode) circleRate
\* is non-increasing in the flow value: no larger value gets a longer
\* duration, in both modes and across the saturation at maxExpectedEnergy
C25_LargerFlowNeverSlower ==
  (/\ rate.called
   /\ config.min_flow_rate <= config.max_flow_rate
   /\ IF config.use_new_flow_rate_model
      THEN config.min_expected_energy < config.max_expected_energy
      ELSE rate.total > 0) =>
    \A larger \in rate.value..(MaxRateValue + 1) :
      NGe(rate.result, circleRate(config, Num(larger), Num(rate.total)))

\* a call in expected-range mode with a value past the saturation point,
\* timed at minRate
C25_Witness ==
  /\ rate.called /\ config.use_new_flow_rate_model
  /\ config.min_flow_rate < config.max_flow_rate
  /\ config.min_expected_energy < config.max_expected_energy
  /\ rate.value = config.max_expected_energy + 1
  /\ rate.result = Num(config.min_flow_rate)

\* C30: after any sequence of setConfig calls, entitiesArr lists the entity
\* of every role _config configures (consumption and production for a split
\* role), and nothing else
C30_EntitiesArrListsConfiguredRoles ==
  config.defined => {entitiesArr[i] : i \in DOMAIN entitiesArr} = ConfiguredEntities(config)

\* C23: previousDur holds, for each main flow, the duration computed by
\* the most recent render that reached the rate computation: a step whose
\* result is a card leaves previousDur at that card's durations, and every
\* other step (a render that leaves early among them) leaves it unchanged
C23_PreviousDurFollowsLastCard ==
  [][IF out'.kind = "card" THEN previousDur' = DurationsOf(out')
     ELSE previousDur' = previousDur]_vars

\* two cards in a row with different durations, previousDur holding those
\* of the later one
C23_Witness ==
  /\ prior.out.kind = "card" /\ out.kind = "card"
  /\ DurationsOf(prior.out) # DurationsOf(out)
  /\ previousDur = DurationsOf(out)
  /\ prior.entryDur = DurationsOf(prior.out)

\* C26: once every pending getStatistics call has returned, this.states
\* holds the statistics of the snapshot delivered last (the one in _data)
C26_StatesOfLatestSnapshot ==
  (data.received /\ fetches = {}) =>
    \A e \in EntityIds : states[e].present => states[e].value = Stat(data.seq, e)

====
